---- MODULE Spec2Model ----
(***************************************************************************)
(* A model of osm_export_tool/sources.py: the four tag-filter compilers    *)
(* (Overpass, OsmiumTool, Galaxy, Hootenanny: parts and filters), the      *)
(* Galaxy request builder, and the path()/fetch() operations of the        *)
(* extraction sources.                                                     *)
(*                                                                         *)
(* Expressions are the prefix tuples the source indexes as prefix[0..2]    *)
(* (1-based here): <<op, key, value>>, <<"in", key, <<v1, ..>>>>,          *)
(* <<"notnull", key>>, <<"and"|"or", left, right>>.                        *)
(*                                                                         *)
(* A Python call returns a value or raises.  An outcome is a record        *)
(*   [kind |-> "list" | "None" | "tuple" | "set" | "str" | <exception>, val] *)
(***************************************************************************)
EXTENDS Naturals, Sequences, FiniteSets, TLC

VARIABLES
    expr,        \* SpecParts: the expression handed to a compiler's parts()
    partsOut,    \* SpecParts: the last parts() call, [cls, out]
    mapping,     \* SpecFilters, SpecGalaxy: mapping.themes, a sequence of themes
    filtersOut,  \* SpecFilters: the last filters() call, [cls, out]
    fetchArgs,   \* SpecGalaxy: is_hdx_export, and whether self.mapping is set
    fetchOut,    \* SpecGalaxy: the last Galaxy.fetch call, [cls, out, requests]
    source,      \* SpecSource: the extraction source object (its fields)
    files,       \* SpecSource: the paths that are files on disk
    calls,       \* SpecSource: number of path() calls made so far
    pathOut      \* SpecSource: the last path() call

vars == <<expr, partsOut, mapping, filtersOut, fetchArgs, fetchOut,
          source, files, calls, pathOut>>

(***************************************************************************)
(* Bounds of the model.                                                    *)
(***************************************************************************)
MaxDepth == 2      \* nesting depth of and/or in the expressions compiled
MaxThemes == 2     \* number of themes in a mapping
MaxCalls == 2      \* number of path() calls on one source

(***************************************************************************)
(* Python values and outcomes.                                             *)
(***************************************************************************)
List(s) == [kind |-> "list", val |-> s]
None == [kind |-> "None", val |-> <<>>]
Raise(e) == [kind |-> e, val |-> <<>>]
\* kinds of outcome that are a returned value; every other kind is the
\* exception raised
ReturnKinds == {"list", "None", "tuple", "set", "str"}
IsRaise(o) == o.kind \notin ReturnKinds
NoCall == [cls |-> "-", out |-> None]
NoFetch == [cls |-> "-", out |-> None, requests |-> <<>>]
NoArgs == [is_hdx_export |-> FALSE, has_mapping |-> FALSE]
NoPath == [cls |-> "-", out |-> None, steps |-> <<>>, existed |-> FALSE]

Range(s) == {s[i] : i \in DOMAIN s}

\* str.join
RECURSIVE join(_, _)
join(sep, s) ==
    IF s = <<>> THEN ""
    ELSE IF Len(s) = 1 THEN s[1]
    ELSE s[1] \o sep \o join(sep, Tail(s))

\* a + b on two parts() outcomes: the left operand is evaluated first, then
\* the right one, then list.__add__, which raises TypeError on None.
Concat(l, r) ==
    IF IsRaise(l) THEN l
    ELSE IF IsRaise(r) THEN r
    ELSE IF l.kind = "None" \/ r.kind = "None" THEN Raise("TypeError")
    ELSE List(l.val \o r.val)

ComparisonOps == {"<", ">", "<=", ">="}

(***************************************************************************)
(* OsmiumTool.parts                                                        *)
(***************************************************************************)
\* OsmiumTool.parts as it would be if it degraded a comparison to "key
\* present", as the other compilers do, instead of raising.
RECURSIVE OsmiumTool_parts_degrading(_)
OsmiumTool_parts_degrading(prefix) ==
    LET op == prefix[1] IN
    IF op = "=" THEN List(<<prefix[2] \o "=" \o prefix[3]>>)
    ELSE IF op = "!=" THEN List(<<prefix[2] \o "!=" \o prefix[3]>>)
    ELSE IF op \in ComparisonOps \/ op = "notnull" THEN List(<<prefix[2]>>)
    ELSE IF op = "in" THEN List(<<prefix[2] \o "=" \o join(",", prefix[3])>>)
    ELSE IF op = "and" \/ op = "or"
         THEN Concat(OsmiumTool_parts_degrading(prefix[2]),
                     OsmiumTool_parts_degrading(prefix[3]))
    ELSE None

RECURSIVE OsmiumTool_parts(_)
OsmiumTool_parts(prefix) ==
    LET op == prefix[1] IN
    IF op = "=" THEN List(<<prefix[2] \o "=" \o prefix[3]>>)
    ELSE IF op = "!=" THEN List(<<prefix[2] \o "!=" \o prefix[3]>>)
    ELSE IF op \in ComparisonOps \/ op = "notnull" THEN Raise("ValueError")
    ELSE IF op = "in" THEN List(<<prefix[2] \o "=" \o join(",", prefix[3])>>)
    ELSE IF op = "and" \/ op = "or"
         THEN Concat(OsmiumTool_parts(prefix[2]), OsmiumTool_parts(prefix[3]))
    ELSE None

(***************************************************************************)
(* Overpass.parts                                                          *)
(***************************************************************************)
RECURSIVE Overpass_parts(_)
Overpass_parts(prefix) ==
    LET op == prefix[1] IN
    IF op = "=" THEN List(<<"['" \o prefix[2] \o "'='" \o prefix[3] \o "']">>)
    ELSE IF op = "!=" THEN List(<<"['" \o prefix[2] \o "'!='" \o prefix[3] \o "']">>)
    ELSE IF op \in ComparisonOps \/ op = "notnull"
         THEN List(<<"['" \o prefix[2] \o "']">>)
    ELSE IF op = "in"
         THEN List(<<"['" \o prefix[2] \o "'~'" \o join("|", prefix[3]) \o "']">>)
    ELSE IF op = "and" \/ op = "or"
         THEN Concat(Overpass_parts(prefix[2]), Overpass_parts(prefix[3]))
    ELSE None

(***************************************************************************)
(* Hootenanny.parts                                                        *)
(***************************************************************************)
RECURSIVE Hootenanny_parts(_)
Hootenanny_parts(prefix) ==
    LET op == prefix[1] IN
    IF op = "=" THEN List(<<"['" \o prefix[2] \o "'='" \o prefix[3] \o "']">>)
    ELSE IF op = "!=" THEN List(<<"['" \o prefix[2] \o "'!='" \o prefix[3] \o "']">>)
    ELSE IF op \in ComparisonOps \/ op = "notnull"
         THEN List(<<"['" \o prefix[2] \o "']">>)
    ELSE IF op = "in"
         THEN List(<<"['" \o prefix[2] \o "'~'" \o join("|", prefix[3]) \o "']">>)
    ELSE IF op = "and" \/ op = "or"
         THEN Concat(Hootenanny_parts(prefix[2]), Hootenanny_parts(prefix[3]))
    ELSE None

(***************************************************************************)
(* Galaxy.parts.  A fragment is JSON text that Galaxy.filters parses back  *)
(* with json.loads, so it is kept as its sequence of lexical pieces: the   *)
(* punctuation of the format string, one piece each, and the key and       *)
(* value strings substituted into it.  Text gives the string itself.       *)
(***************************************************************************)
SP == " "
QT == "\""

\* """ "," """.join(values), as pieces
RECURSIVE join_quoted(_)
join_quoted(s) ==
    IF s = <<>> THEN <<>>
    ELSE IF Len(s) = 1 THEN <<s[1]>>
    ELSE <<s[1], SP, QT, ",", QT, SP>> \o join_quoted(Tail(s))

RECURSIVE Galaxy_parts(_)
Galaxy_parts(prefix) ==
    LET op == prefix[1] IN
    IF op = "="
    THEN List(<< <<SP, QT, prefix[2], QT, ":", "[", QT, prefix[3], QT, "]", SP>> >>)
    ELSE IF op \in ComparisonOps \/ op = "notnull"
         THEN List(<< <<SP, QT, prefix[2], QT, ":", "[", "]", SP>> >>)
    ELSE IF op = "in"
         THEN List(<< <<SP, QT, prefix[2], QT, ":", "[", QT>>
                      \o join_quoted(prefix[3]) \o <<QT, "]">> >>)
    ELSE IF op = "and" \/ op = "or"
         THEN Concat(Galaxy_parts(prefix[2]), Galaxy_parts(prefix[3]))
    ELSE None   \* "!=" is a bare pass: it falls through like an unknown operator

Text(pieces) == join("", pieces)

(***************************************************************************)
(* The expressions compiled.  Keys and values are tag strings; value lists *)
(* hold up to MaxValues values.  The trees nest and/or to MaxDepth, each   *)
(* level putting one more leaf on the left or on the right of a tree.      *)
(***************************************************************************)
MaxValues == 2     \* length of the value list of an "in" node

Keys == {"amenity", "highway"}
Values == {"school", "primary", "secondary"}
ValueLists == UNION {[1..n -> Values] : n \in 1..MaxValues}

\* single Equals, NotEquals and In nodes
SimpleNodes ==
    {<<op, k, v>> : op \in {"=", "!="}, k \in Keys, v \in Values}
    \cup {<<"in", k, vs>> : k \in Keys, vs \in ValueLists}

ComparisonNodes ==
    {<<op, "height", "5">> : op \in ComparisonOps} \cup {<<"notnull", "name">>}

\* a node whose operator is none the compilers know
MalformedNodes == {<<"like", "name", "x">>}

NestLeaves ==
    {<<"=", "amenity", "school">>, <<"!=", "amenity", "school">>,
     <<"in", "highway", <<"primary", "secondary">>>>,
     <<"<", "height", "5">>, <<">=", "height", "5">>, <<"notnull", "name">>}
    \cup MalformedNodes

RECURSIVE Trees(_)
Trees(d) ==
    IF d = 0 THEN NestLeaves
    ELSE LET T == Trees(d - 1) IN
         T \cup {<<op, a, b>> : op \in {"and", "or"}, a \in T, b \in NestLeaves}
           \cup {<<op, b, a>> : op \in {"and", "or"}, a \in T, b \in NestLeaves}

Exprs == Trees(MaxDepth) \cup SimpleNodes \cup ComparisonNodes

Classes == {"Overpass", "OsmiumTool", "Galaxy", "Hootenanny"}

(***************************************************************************)
(* SpecParts: a compiler's parts() applied to an expression.  parts is a   *)
(* classmethod without state: a behaviour is one call on one expression.   *)
(***************************************************************************)
PartsIdle ==
    /\ mapping = <<>> /\ filtersOut = NoCall
    /\ fetchArgs = NoArgs /\ fetchOut = NoFetch
    /\ source = NoCall /\ files = {} /\ calls = 0 /\ pathOut = NoPath

InitParts ==
    /\ expr \in Exprs
    /\ partsOut = NoCall
    /\ PartsIdle

CallOverpassParts ==
    /\ partsOut = NoCall
    /\ partsOut' = [cls |-> "Overpass", out |-> Overpass_parts(expr)]
    /\ UNCHANGED <<expr, mapping, filtersOut, fetchArgs, fetchOut,
                   source, files, calls, pathOut>>

CallOsmiumToolParts ==
    /\ partsOut = NoCall
    /\ partsOut' = [cls |-> "OsmiumTool", out |-> OsmiumTool_parts(expr)]
    /\ UNCHANGED <<expr, mapping, filtersOut, fetchArgs, fetchOut,
                   source, files, calls, pathOut>>

CallGalaxyParts ==
    /\ partsOut = NoCall
    /\ partsOut' = [cls |-> "Galaxy", out |-> Galaxy_parts(expr)]
    /\ UNCHANGED <<expr, mapping, filtersOut, fetchArgs, fetchOut,
                   source, files, calls, pathOut>>

CallHootenannyParts ==
    /\ partsOut = NoCall
    /\ partsOut' = [cls |-> "Hootenanny", out |-> Hootenanny_parts(expr)]
    /\ UNCHANGED <<expr, mapping, filtersOut, fetchArgs, fetchOut,
                   source, files, calls, pathOut>>

NextParts ==
    \/ CallOverpassParts
    \/ CallOsmiumToolParts
    \/ CallGalaxyParts
    \/ CallHootenannyParts

SpecParts == InitParts /\ [][NextParts]_vars

(***************************************************************************)
(* Properties of parts().                                                  *)
(***************************************************************************)
IsCombinator(e) == e[1] \in {"and", "or"}

\* e holds a comparison or notnull node, at any depth under and/or
RECURSIVE HasComparison(_)
HasComparison(e) ==
    IF IsCombinator(e) THEN HasComparison(e[2]) \/ HasComparison(e[3])
    ELSE e[1] \in ComparisonOps \/ e[1] = "notnull"

\* e holds a node whose operator is outside the variant set
RECURSIVE HasMalformed(_)
HasMalformed(e) ==
    IF IsCombinator(e) THEN HasMalformed(e[2]) \/ HasMalformed(e[3])
    ELSE e[1] \notin {"=", "!=", "in", "notnull"} \cup ComparisonOps

\* e is built from Equals, NotEquals, In, And and Or only
RECURSIVE OnlyBasic(_)
OnlyBasic(e) ==
    IF IsCombinator(e) THEN OnlyBasic(e[2]) /\ OnlyBasic(e[3])
    ELSE e[1] \in {"=", "!=", "in"}

PartsOf(cls, e) ==
    CASE cls = "Overpass" -> Overpass_parts(e)
      [] cls = "OsmiumTool" -> OsmiumTool_parts(e)
      [] cls = "Galaxy" -> Galaxy_parts(e)
      [] cls = "Hootenanny" -> Hootenanny_parts(e)

\* the fragment strings of a parts() outcome
FragmentSet(cls, out) ==
    IF cls = "Galaxy" THEN {Text(f) : f \in Range(out.val)} ELSE Range(out.val)

\* C4: OsmiumTool.parts raises for every expression that holds a comparison
\* or notnull node at any depth, on either side of and/or; the error is the
\* ValueError of the unsupported operator whenever the tree is well formed.
C4_OsmiumRejectsComparison ==
    (partsOut.cls = "OsmiumTool" /\ HasComparison(expr))
        => /\ IsRaise(partsOut.out)
           /\ ~HasMalformed(expr) => partsOut.out.kind = "ValueError"

C4_Witness ==
    /\ partsOut.cls = "OsmiumTool"
    /\ expr = <<"and", <<"=", "amenity", "school">>,
                <<"or", <<"in", "highway", <<"primary", "secondary">>>>,
                        <<">=", "height", "5">>>>>>
    /\ partsOut.out.kind = "ValueError"

\* C5: for each compiler, And(A,B) and Or(A,B) over A, B built from Equals,
\* NotEquals, In, And, Or compile to a fragment list whose set of fragments is
\* the union of the fragment sets of A and of B.
C5_CombinatorIsUnion ==
    (partsOut.cls \in Classes /\ IsCombinator(expr) /\ OnlyBasic(expr))
        => /\ partsOut.out.kind = "list"
           /\ FragmentSet(partsOut.cls, partsOut.out)
                = FragmentSet(partsOut.cls, PartsOf(partsOut.cls, expr[2]))
                  \cup FragmentSet(partsOut.cls, PartsOf(partsOut.cls, expr[3]))

\* C8: for each compiler, a single Equals, NotEquals or In node compiles to
\* exactly one fragment, and no other such node compiles to the same fragment.
C8_SimpleNodesInvertible ==
    (partsOut.cls \in Classes /\ expr \in SimpleNodes)
        => /\ partsOut.out.kind = "list"
           /\ Len(partsOut.out.val) = 1
           /\ \A n \in SimpleNodes :
                n # expr => FragmentSet(partsOut.cls, PartsOf(partsOut.cls, n))
                              # FragmentSet(partsOut.cls, partsOut.out)

(***************************************************************************)
(* Themes and mappings.  A theme has a name, a matcher (matcher.expr), the *)
(* element kinds it enables and the keys it selects; mapping.themes is a   *)
(* sequence of themes.                                                     *)
(***************************************************************************)
ThemeRules ==
    {[name |-> "schools", matcher |-> <<"=", "amenity", "school">>,
      keys |-> <<"amenity", "name">>],
     [name |-> "clinics", matcher |-> <<"=", "amenity", "clinic">>,
      keys |-> <<"amenity">>],
     [name |-> "amenities", matcher |-> <<"notnull", "amenity">>,
      keys |-> <<"amenity">>],
     [name |-> "roads",
      matcher |-> <<"in", "highway", <<"primary", "secondary">>>>,
      keys |-> <<"highway">>],
     [name |-> "school_any",
      matcher |-> <<"and", <<"=", "amenity", "school">>, <<"notnull", "amenity">>>>,
      keys |-> <<"amenity", "name">>],
     [name |-> "not_school", matcher |-> <<"!=", "amenity", "school">>,
      keys |-> <<"amenity">>],
     [name |-> "malformed", matcher |-> <<"like", "name", "x">>,
      keys |-> <<"name">>]}

Theme(rule, points, lines, polygons) ==
    [name |-> rule.name, matcher |-> rule.matcher, keys |-> rule.keys,
     points |-> points, lines |-> lines, polygons |-> polygons]

Themes ==
    {Theme(r, p, l, g) : r \in ThemeRules, p \in BOOLEAN, l \in BOOLEAN, g \in BOOLEAN}

Mappings == UNION {[1..n -> Themes] : n \in 0..MaxThemes}

Tuple(v) == [kind |-> "tuple", val |-> v]

(***************************************************************************)
(* Overpass.filters                                                        *)
(***************************************************************************)
\* The loop body as it would be if the polygons branch added to relations only.
Overpass_filters_theme_no_ways(t, acc) ==
    LET parts == Overpass_parts(t.matcher) IN
    IF IsRaise(parts) THEN parts
    ELSE IF (t.points \/ t.lines \/ t.polygons) /\ parts.kind = "None"
         THEN Raise("TypeError")
    ELSE LET P == Range(parts.val) IN
         Tuple([nodes |-> IF t.points THEN acc.nodes \cup P ELSE acc.nodes,
                ways |-> IF t.lines THEN acc.ways \cup P ELSE acc.ways,
                relations |-> IF t.polygons THEN acc.relations \cup P
                              ELSE acc.relations])

\* the body of the loop, for one theme; acc is <<nodes, ways, relations>>.
\* Iterating parts raises TypeError when parts is None.
Overpass_filters_theme(t, acc) ==
    LET parts == Overpass_parts(t.matcher) IN
    IF IsRaise(parts) THEN parts
    ELSE IF (t.points \/ t.lines \/ t.polygons) /\ parts.kind = "None"
         THEN Raise("TypeError")
    ELSE LET P == Range(parts.val) IN
         Tuple([nodes |-> IF t.points THEN acc.nodes \cup P ELSE acc.nodes,
                ways |-> IF t.lines \/ t.polygons THEN acc.ways \cup P ELSE acc.ways,
                relations |-> IF t.polygons THEN acc.relations \cup P
                              ELSE acc.relations])

RECURSIVE Overpass_filters_loop(_, _)
Overpass_filters_loop(themes, acc) ==
    IF themes = <<>> THEN Tuple(acc)
    ELSE LET r == Overpass_filters_theme(Head(themes), acc) IN
         IF IsRaise(r) THEN r ELSE Overpass_filters_loop(Tail(themes), r.val)

NoFragments == [nodes |-> {}, ways |-> {}, relations |-> {}]

Overpass_filters(themes) == Overpass_filters_loop(themes, NoFragments)

(***************************************************************************)
(* Hootenanny.filters                                                      *)
(***************************************************************************)
Hootenanny_filters_theme(t, acc) ==
    LET parts == Hootenanny_parts(t.matcher) IN
    IF IsRaise(parts) THEN parts
    ELSE IF (t.points \/ t.lines \/ t.polygons) /\ parts.kind = "None"
         THEN Raise("TypeError")
    ELSE LET P == Range(parts.val) IN
         Tuple([nodes |-> IF t.points THEN acc.nodes \cup P ELSE acc.nodes,
                ways |-> IF t.lines \/ t.polygons THEN acc.ways \cup P ELSE acc.ways,
                relations |-> IF t.polygons THEN acc.relations \cup P
                              ELSE acc.relations])

RECURSIVE Hootenanny_filters_loop(_, _)
Hootenanny_filters_loop(themes, acc) ==
    IF themes = <<>> THEN Tuple(acc)
    ELSE LET r == Hootenanny_filters_theme(Head(themes), acc) IN
         IF IsRaise(r) THEN r ELSE Hootenanny_filters_loop(Tail(themes), r.val)

Hootenanny_filters(themes) == Hootenanny_filters_loop(themes, NoFragments)

(***************************************************************************)
(* OsmiumTool.get_element_filter and OsmiumTool.filters                    *)
(***************************************************************************)
get_element_filter(theme, part) ==
    (IF theme.points THEN <<"n/" \o part>> ELSE <<>>)
    \o (IF theme.lines THEN <<"w/" \o part>> ELSE <<>>)
    \o (IF theme.polygons THEN <<"r/" \o part>> ELSE <<>>)

\* The loop over parts runs for every theme, whatever kinds it enables, so a
\* None from parts raises TypeError here.  The local set "tags" the loop also
\* fills is never read or returned and is left out.
RECURSIVE OsmiumTool_filters_loop(_, _)
OsmiumTool_filters_loop(themes, filters_set) ==
    IF themes = <<>> THEN [kind |-> "set", val |-> filters_set]
    ELSE LET t == Head(themes)
             parts == OsmiumTool_parts(t.matcher)
         IN  IF IsRaise(parts) THEN parts
             ELSE IF parts.kind = "None" THEN Raise("TypeError")
             ELSE OsmiumTool_filters_loop(
                      Tail(themes),
                      filters_set \cup UNION {Range(get_element_filter(t, part)) :
                                               part \in Range(parts.val)})

OsmiumTool_filters(themes) == OsmiumTool_filters_loop(themes, {})

(***************************************************************************)
(* json.loads of "{" + part.strip() + "}" for a Galaxy fragment, over its  *)
(* pieces: the one key of the object and its list of strings.  A string    *)
(* runs from a quote to the next quote; blanks between tokens are skipped. *)
(***************************************************************************)
RECURSIVE skip_ws(_, _)
skip_ws(p, i) == IF i <= Len(p) /\ p[i] = SP THEN skip_ws(p, i + 1) ELSE i

At(p, i) == IF i <= Len(p) THEN p[i] ELSE "<end>"

\* p[i] is the piece after an opening quote
RECURSIVE scan_string(_, _, _)
scan_string(p, i, acc) ==
    IF i > Len(p) THEN [ok |-> FALSE, str |-> acc, next |-> i]
    ELSE IF p[i] = QT THEN [ok |-> TRUE, str |-> acc, next |-> i + 1]
    ELSE scan_string(p, i + 1, acc \o p[i])

\* p[i] is the piece where an element of the array is expected
RECURSIVE scan_elements(_, _, _)
scan_elements(p, i, acc) ==
    LET j == skip_ws(p, i) IN
    IF At(p, j) # QT THEN [ok |-> FALSE, list |-> acc, next |-> j]
    ELSE LET sv == scan_string(p, j + 1, "")
             k == skip_ws(p, sv.next)
         IN  IF ~sv.ok THEN [ok |-> FALSE, list |-> acc, next |-> k]
             ELSE IF At(p, k) = "," THEN scan_elements(p, k + 1, Append(acc, sv.str))
             ELSE IF At(p, k) = "]"
                  THEN [ok |-> TRUE, list |-> Append(acc, sv.str), next |-> k + 1]
             ELSE [ok |-> FALSE, list |-> acc, next |-> k]

json_loads(p) ==
    LET bad == [ok |-> FALSE, key |-> "", value |-> <<>>]
        i1 == skip_ws(p, 1)
        ks == scan_string(p, i1 + 1, "")
        i2 == skip_ws(p, ks.next)
        i3 == skip_ws(p, i2 + 1)
        i4 == skip_ws(p, i3 + 1)
        arr == IF At(p, i4) = "]" THEN [ok |-> TRUE, list |-> <<>>, next |-> i4 + 1]
               ELSE scan_elements(p, i4, <<>>)
    IN  IF At(p, i1) # QT \/ ~ks.ok THEN bad
        ELSE IF At(p, i2) # ":" \/ At(p, i3) # "[" THEN bad
        ELSE IF ~arr.ok \/ skip_ws(p, arr.next) # Len(p) + 1 THEN bad
        ELSE [ok |-> TRUE, key |-> ks.str, value |-> arr.list]

(***************************************************************************)
(* Galaxy.filters, Galaxy.hdx_filters, Galaxy.remove_duplicates,           *)
(* Galaxy.attribute_filter.  A dict is a function from its keys.           *)
(***************************************************************************)
EmptyDict == [k \in {} |-> <<>>]
SetItem(d, key, value) ==
    [k \in DOMAIN d \cup {key} |-> IF k = key THEN value ELSE d[k]]
\* dict == dict
DictEq(a, b) == DOMAIN a = DOMAIN b /\ \A k \in DOMAIN a : a[k] = b[k]

attribute_filter(theme) == theme.keys

\* list(dict.fromkeys(value)): the first occurrence of each value, in order
RECURSIVE fromkeys(_, _)
fromkeys(value, acc) ==
    IF value = <<>> THEN acc
    ELSE fromkeys(Tail(value),
                  IF Head(value) \in Range(acc) THEN acc ELSE Append(acc, Head(value)))

remove_duplicates(entries_dict) ==
    [key \in DOMAIN entries_dict |-> fromkeys(entries_dict[key], <<>>)]

\* the update of point_filter and of line_filter
update_adding(filter, key, value) ==
    IF key \notin DOMAIN filter THEN SetItem(filter, key, value)
    ELSE SetItem(filter, key, filter[key] \o value)

\* the update of poly_filter
update_absorbing(filter, key, value) ==
    IF key \notin DOMAIN filter THEN SetItem(filter, key, value)
    ELSE IF filter[key] # <<>>
         THEN IF value = <<>> THEN SetItem(filter, key, value)
              ELSE SetItem(filter, key, filter[key] \o value)
    ELSE filter

\* "for part in parts" of the points and of the lines branch
RECURSIVE add_parts(_, _)
add_parts(parts, filter) ==
    IF parts = <<>> THEN filter
    ELSE LET part_dict == json_loads(Head(parts)) IN
         add_parts(Tail(parts), update_adding(filter, part_dict.key, part_dict.value))

\* "for part in parts" of the polygons branch
RECURSIVE absorb_parts(_, _)
absorb_parts(parts, filter) ==
    IF parts = <<>> THEN filter
    ELSE LET part_dict == json_loads(Head(parts)) IN
         absorb_parts(Tail(parts),
                      update_absorbing(filter, part_dict.key, part_dict.value))

NoFilters ==
    [point_filter |-> EmptyDict, line_filter |-> EmptyDict, poly_filter |-> EmptyDict,
     geometryType |-> <<>>,
     point_columns |-> <<>>, line_columns |-> <<>>, poly_columns |-> <<>>]

\* the body of the loop over the themes, for one theme
Galaxy_filters_theme(t, acc) ==
    LET parts == Galaxy_parts(t.matcher) IN
    IF IsRaise(parts) THEN parts
    ELSE IF (t.points \/ t.lines \/ t.polygons) /\ parts.kind = "None"
         THEN Raise("TypeError")
    ELSE IF (t.points \/ t.lines \/ t.polygons)
            /\ \E part \in Range(parts.val) : ~json_loads(part).ok
         THEN Raise("JSONDecodeError")
    ELSE Tuple(
        [point_filter |-> IF t.points THEN add_parts(parts.val, acc.point_filter)
                          ELSE acc.point_filter,
         line_filter |-> IF t.lines THEN add_parts(parts.val, acc.line_filter)
                         ELSE acc.line_filter,
         poly_filter |-> IF t.polygons THEN absorb_parts(parts.val, acc.poly_filter)
                         ELSE acc.poly_filter,
         geometryType |-> acc.geometryType
                          \o (IF t.points THEN <<"point">> ELSE <<>>)
                          \o (IF t.lines THEN <<"line">> ELSE <<>>)
                          \o (IF t.polygons THEN <<"polygon">> ELSE <<>>),
         point_columns |-> IF t.points THEN attribute_filter(t) ELSE acc.point_columns,
         line_columns |-> IF t.lines THEN attribute_filter(t) ELSE acc.line_columns,
         poly_columns |-> IF t.polygons THEN attribute_filter(t) ELSE acc.poly_columns])

RECURSIVE Galaxy_filters_loop(_, _)
Galaxy_filters_loop(themes, acc) ==
    IF themes = <<>> THEN Tuple(acc)
    ELSE LET r == Galaxy_filters_theme(Head(themes), acc) IN
         IF IsRaise(r) THEN r ELSE Galaxy_filters_loop(Tail(themes), r.val)

\* the three "if ..._filter: remove_duplicates" that end filters and hdx_filters
Galaxy_filters_end(r) ==
    IF IsRaise(r) THEN r
    ELSE Tuple([r.val EXCEPT !.point_filter = remove_duplicates(@),
                             !.line_filter = remove_duplicates(@),
                             !.poly_filter = remove_duplicates(@)])

Galaxy_filters(themes) == Galaxy_filters_end(Galaxy_filters_loop(themes, NoFilters))

Galaxy_hdx_filters(t) == Galaxy_filters_end(Galaxy_filters_theme(t, NoFilters))

(***************************************************************************)
(* SpecFilters: a compiler's filters() applied to a mapping.  filters is a *)
(* classmethod without state: a behaviour is one call on one mapping.      *)
(***************************************************************************)
FiltersIdle ==
    /\ expr = <<>> /\ partsOut = NoCall
    /\ fetchArgs = NoArgs /\ fetchOut = NoFetch
    /\ source = NoCall /\ files = {} /\ calls = 0 /\ pathOut = NoPath

InitFilters ==
    /\ mapping \in Mappings
    /\ filtersOut = NoCall
    /\ FiltersIdle

CallOverpassFilters ==
    /\ filtersOut = NoCall
    /\ filtersOut' = [cls |-> "Overpass", out |-> Overpass_filters(mapping)]
    /\ UNCHANGED <<expr, partsOut, mapping, fetchArgs, fetchOut,
                   source, files, calls, pathOut>>

CallHootenannyFilters ==
    /\ filtersOut = NoCall
    /\ filtersOut' = [cls |-> "Hootenanny", out |-> Hootenanny_filters(mapping)]
    /\ UNCHANGED <<expr, partsOut, mapping, fetchArgs, fetchOut,
                   source, files, calls, pathOut>>

CallOsmiumToolFilters ==
    /\ filtersOut = NoCall
    /\ filtersOut' = [cls |-> "OsmiumTool", out |-> OsmiumTool_filters(mapping)]
    /\ UNCHANGED <<expr, partsOut, mapping, fetchArgs, fetchOut,
                   source, files, calls, pathOut>>

CallGalaxyFilters ==
    /\ filtersOut = NoCall
    /\ filtersOut' = [cls |-> "Galaxy", out |-> Galaxy_filters(mapping)]
    /\ UNCHANGED <<expr, partsOut, mapping, fetchArgs, fetchOut,
                   source, files, calls, pathOut>>

NextFilters ==
    \/ CallOverpassFilters
    \/ CallHootenannyFilters
    \/ CallOsmiumToolFilters
    \/ CallGalaxyFilters

SpecFilters == InitFilters /\ [][NextFilters]_vars

(***************************************************************************)
(* Properties of filters().                                                *)
(***************************************************************************)
FiltersOf(cls, themes) ==
    CASE cls = "Overpass" -> Overpass_filters(themes)
      [] cls = "OsmiumTool" -> OsmiumTool_filters(themes)
      [] cls = "Galaxy" -> Galaxy_filters(themes)
      [] cls = "Hootenanny" -> Hootenanny_filters(themes)

\* the fragments a theme's matcher compiles to
ThemeFragments(cls, t) == Range(PartsOf(cls, t.matcher).val)

ThemesOf(m) == Range(m)

\* C6: Overpass.filters and Hootenanny.filters return nodes = the fragments of
\* the themes with points, ways = those of the themes with lines or polygons,
\* relations = those of the themes with polygons, each fragment once; they
\* return whenever every matcher is well formed; a points-only theme
\* Equals(amenity, school) gives nodes {['amenity'='school']} and no ways or
\* relations.
C6_ElementKindSets ==
    filtersOut.cls \in {"Overpass", "Hootenanny"} =>
        LET cls == filtersOut.cls
            out == filtersOut.out
            F(t) == ThemeFragments(cls, t)
            T == ThemesOf(mapping)
        IN  /\ (\A t \in T : ~HasMalformed(t.matcher)) => out.kind = "tuple"
            /\ out.kind = "tuple" =>
                /\ out.val.nodes = UNION {F(t) : t \in {u \in T : u.points}}
                /\ out.val.ways
                     = UNION {F(t) : t \in {u \in T : u.lines \/ u.polygons}}
                /\ out.val.relations = UNION {F(t) : t \in {u \in T : u.polygons}}
                /\ (/\ Len(mapping) = 1
                    /\ mapping[1].matcher = <<"=", "amenity", "school">>
                    /\ mapping[1].points /\ ~mapping[1].lines /\ ~mapping[1].polygons)
                   => /\ out.val.nodes = {"['amenity'='school']"}
                      /\ out.val.ways = {}
                      /\ out.val.relations = {}

C6_Witness ==
    /\ filtersOut.cls = "Overpass"
    /\ Len(mapping) = 2
    /\ mapping[1].matcher = <<"=", "amenity", "school">>
    /\ mapping[1].points /\ ~mapping[1].lines /\ ~mapping[1].polygons
    /\ mapping[2].matcher = <<"and", <<"=", "amenity", "school">>,
                                     <<"notnull", "amenity">>>>
    /\ mapping[2].polygons /\ ~mapping[2].lines /\ ~mapping[2].points
    /\ filtersOut.out.kind = "tuple"
    /\ filtersOut.out.val.nodes = {"['amenity'='school']"}
    /\ filtersOut.out.val.ways = {"['amenity'='school']", "['amenity']"}
    /\ filtersOut.out.val.relations = filtersOut.out.val.ways

\* C7: OsmiumTool.filters holds n/f exactly when a theme producing f enables
\* points, w/f exactly when one enables lines or polygons, r/f exactly when
\* one enables polygons; a lines-only theme In(highway, [primary, secondary])
\* gives exactly w/highway=primary,secondary.
C7_OsmiumElementKinds ==
    (filtersOut.cls = "OsmiumTool" /\ filtersOut.out.kind = "set") =>
        LET S == filtersOut.out.val
            F(t) == ThemeFragments("OsmiumTool", t)
            T == ThemesOf(mapping)
        IN  /\ \A t \in T : \A f \in F(t) :
                /\ ("n/" \o f) \in S <=> \E u \in T : f \in F(u) /\ u.points
                /\ ("w/" \o f) \in S
                     <=> \E u \in T : f \in F(u) /\ (u.lines \/ u.polygons)
                /\ ("r/" \o f) \in S <=> \E u \in T : f \in F(u) /\ u.polygons
            /\ (/\ Len(mapping) = 1
                /\ mapping[1].matcher = <<"in", "highway", <<"primary", "secondary">>>>
                /\ mapping[1].lines /\ ~mapping[1].points /\ ~mapping[1].polygons)
               => S = {"w/highway=primary,secondary"}

KindNames == {"point", "line", "polygon"}
KindEnabled(t, kind) ==
    CASE kind = "point" -> t.points
      [] kind = "line" -> t.lines
      [] kind = "polygon" -> t.polygons
KindFilter(v, kind) ==
    CASE kind = "point" -> v.point_filter
      [] kind = "line" -> v.line_filter
      [] kind = "polygon" -> v.poly_filter
KindColumns(v, kind) ==
    CASE kind = "point" -> v.point_columns
      [] kind = "line" -> v.line_columns
      [] kind = "polygon" -> v.poly_columns

\* some fragment of a theme enabling the kind updates the key with []
WildcardSeen(m, kind, key) ==
    \E t \in ThemesOf(m) :
        /\ KindEnabled(t, kind)
        /\ \E part \in ThemeFragments("Galaxy", t) :
              json_loads(part).key = key /\ json_loads(part).value = <<>>

\* C2: in Galaxy.filters, for the point, the line and the polygon dictionary
\* alike, a key that any fragment updated with [] ends with the value [],
\* whether narrower values came before it or after it.
C2_WildcardAbsorbs ==
    (filtersOut.cls = "Galaxy" /\ filtersOut.out.kind = "tuple") =>
        \A kind \in KindNames :
            \A key \in DOMAIN KindFilter(filtersOut.out.val, kind) :
                WildcardSeen(mapping, kind, key)
                    => KindFilter(filtersOut.out.val, kind)[key] = <<>>

Perms(n) == {f \in [1..n -> 1..n] : \A i, j \in 1..n : f[i] = f[j] => i = j}
Permuted(m, f) == [i \in 1..Len(m) |-> m[f[i]]]

AsSets(d) == [k \in DOMAIN d |-> Range(d[k])]

\* two filters() outcomes with the same content, whatever the order
SameContent(cls, a, b) ==
    /\ IsRaise(a) <=> IsRaise(b)
    /\ ~IsRaise(a) =>
         IF cls = "Galaxy"
         THEN /\ \A kind \in KindNames :
                   /\ AsSets(KindFilter(a.val, kind)) = AsSets(KindFilter(b.val, kind))
                   /\ Range(KindColumns(a.val, kind)) = Range(KindColumns(b.val, kind))
              /\ Range(a.val.geometryType) = Range(b.val.geometryType)
         ELSE a.val = b.val

\* C10: for each compiler's filters, every permutation of the mapping's
\* themes gives a result of the same content.
C10_ThemeOrderIrrelevant ==
    filtersOut.cls \in Classes =>
        \A f \in Perms(Len(mapping)) :
            SameContent(filtersOut.cls, filtersOut.out,
                        FiltersOf(filtersOut.cls, Permuted(mapping, f)))

(***************************************************************************)
(* Galaxy.fetch.  The geometry and the output format go into the request   *)
(* body unchanged and are left out of it here.                             *)
(***************************************************************************)
file_name == "export"

\* requests raises these from post, raise_for_status and json; fetch catches
\* RequestException and raises the same exception again
RequestErrors == {"HTTPError", "ConnectionError", "Timeout", "JSONDecodeError"}

\* point_filter == line_filter == poly_filter
FiltersEqual(v) ==
    DictEq(v.point_filter, v.line_filter) /\ DictEq(v.line_filter, v.poly_filter)

osmTags(v) == IF FiltersEqual(v) THEN v.point_filter ELSE EmptyDict

columns(v) ==
    IF v.point_columns = v.line_columns /\ v.line_columns = v.poly_columns
    THEN v.point_columns ELSE <<>>

\* the four request_body literals; "if osmTags" and "if columns" test for
\* a non-empty dict and a non-empty list
request_body(fileName, geometryType, v) ==
    LET perKindTags == [point |-> v.point_filter, line |-> v.line_filter,
                        polygon |-> v.poly_filter]
        perKindColumns == [point |-> v.point_columns, line |-> v.line_columns,
                           polygon |-> v.poly_columns]
    IN  IF DOMAIN osmTags(v) # {}
        THEN IF columns(v) # <<>>
             THEN [fileName |-> fileName, geometryType |-> geometryType,
                   has_osmTags |-> FALSE,
                   tags |-> [all_geometry |-> osmTags(v)],
                   attributes |-> [all_geometry |-> columns(v)]]
             ELSE [fileName |-> fileName, geometryType |-> geometryType,
                   has_osmTags |-> TRUE,
                   tags |-> [all_geometry |-> osmTags(v)],
                   attributes |-> perKindColumns]
        ELSE IF columns(v) # <<>>
             THEN [fileName |-> fileName, geometryType |-> geometryType,
                   has_osmTags |-> FALSE,
                   tags |-> perKindTags,
                   attributes |-> [all_geometry |-> columns(v)]]
             ELSE [fileName |-> fileName, geometryType |-> geometryType,
                   has_osmTags |-> FALSE,
                   tags |-> perKindTags,
                   attributes |-> perKindColumns]

\* the requests of one theme in HDX mode, one per geometry type
hdx_theme_requests(t, v) ==
    LET geometryType_filter ==
            IF v.geometryType = <<>> THEN <<"point", "line", "polygon">>
            ELSE v.geometryType
    IN  [i \in 1..Len(geometryType_filter) |->
            [body |-> request_body(file_name \o "-" \o t.name \o "-"
                                     \o geometryType_filter[i],
                                   <<geometryType_filter[i]>>, v),
             theme |-> t.name]]

\* What fetch sets out to do: the requests in order, and the exception that
\* ends it before any further request, if one does ("" for none).  The
\* value filters returned is bound once, as the code's tuple assignment does.
RECURSIVE hdx_plan(_, _)
hdx_plan(themes, sent) ==
    IF themes = <<>> THEN [requests |-> sent, error |-> ""]
    ELSE CHOOSE plan \in
            {IF IsRaise(f) THEN [requests |-> sent, error |-> f.kind]
             ELSE hdx_plan(Tail(themes),
                           sent \o hdx_theme_requests(Head(themes), f.val)) :
                f \in {Galaxy_hdx_filters(Head(themes))}} : TRUE

fetch_plan(args, themes) ==
    IF ~args.has_mapping
    THEN \* osmTags is read before it was ever assigned
         [requests |-> <<>>, error |-> "UnboundLocalError"]
    ELSE IF args.is_hdx_export THEN hdx_plan(themes, <<>>)
    ELSE CHOOSE plan \in
            {IF IsRaise(f) THEN [requests |-> <<>>, error |-> f.kind]
             ELSE [requests |-> <<[body |-> request_body(file_name,
                                                         f.val.geometryType, f.val),
                                   theme |-> ""]>>,
                   error |-> ""] :
                f \in {Galaxy_filters(themes)}} : TRUE

\* fetch of a plan when request number failAt fails with err (0: none fails)
Galaxy_fetch_run(plan, failAt, err) ==
    LET n == Len(plan.requests)
    IN  IF failAt \in 1..n
        THEN [cls |-> "Galaxy", out |-> Raise(err),
              requests |-> SubSeq(plan.requests, 1, failAt)]
        ELSE [cls |-> "Galaxy",
              out |-> IF plan.error # "" THEN Raise(plan.error)
                      ELSE List([i \in 1..n |->
                                   [response |-> i, theme |-> plan.requests[i].theme]]),
              requests |-> plan.requests]

GalaxyIdle ==
    /\ expr = <<>> /\ partsOut = NoCall /\ filtersOut = NoCall
    /\ source = NoCall /\ files = {} /\ calls = 0 /\ pathOut = NoPath

InitGalaxy ==
    /\ fetchArgs \in [is_hdx_export : BOOLEAN, has_mapping : BOOLEAN]
    /\ mapping \in (IF fetchArgs.has_mapping THEN Mappings ELSE {<<>>})
    /\ fetchOut = NoFetch
    /\ GalaxyIdle

Galaxy_fetch ==
    /\ fetchOut = NoFetch
    /\ \E plan \in {fetch_plan(fetchArgs, mapping)} :
       \/ fetchOut' = Galaxy_fetch_run(plan, 0, "")
       \/ \E failAt \in 1..Len(plan.requests), err \in RequestErrors :
             fetchOut' = Galaxy_fetch_run(plan, failAt, err)
    /\ UNCHANGED <<expr, partsOut, mapping, filtersOut, fetchArgs,
                   source, files, calls, pathOut>>

NextGalaxy == Galaxy_fetch

SpecGalaxy == InitGalaxy /\ [][NextGalaxy]_vars

\* C3: in Galaxy.fetch, normal mode, with a mapping: filters.tags has the one
\* key all_geometry exactly when the point, line and polygon dictionaries are
\* pairwise equal (empty ones included); otherwise it has the three keys
\* point, line and polygon.
C3_MasterFilterCollapse ==
    (/\ fetchOut.cls = "Galaxy"
     /\ fetchArgs.has_mapping /\ ~fetchArgs.is_hdx_export
     /\ fetchOut.requests # <<>>) =>
        LET v == Galaxy_filters(mapping).val
            tags == fetchOut.requests[1].body.tags
            equal == /\ DictEq(v.point_filter, v.line_filter)
                     /\ DictEq(v.point_filter, v.poly_filter)
                     /\ DictEq(v.line_filter, v.poly_filter)
        IN  /\ equal <=> DOMAIN tags = {"all_geometry"}
            /\ ~equal <=> DOMAIN tags = KindNames

(***************************************************************************)
(* The sources with a path(): OsmExpress, OsmiumTool, Overpass, Hootenanny.*)
(* A call is laid out as the sequence of things it does in order: files    *)
(* written and removed, backend steps (an external process or an HTTP      *)
(* request), and exceptions raised by the code itself.                     *)
(***************************************************************************)
AreaThreshold == 60000   \* self.geom.area < 6e4
SampleSize == 6          \* sample = [next(f) for x in range(6)]

Write(file) == [kind |-> "write", file |-> file]
Remove(file) == [kind |-> "remove", file |-> file]
RaiseItem(e) == [kind |-> "raise", error |-> e]

\* A backend step.  cause is the error of the backend itself when the step
\* fails, error the exception that the caller of path() then gets.
Step(cmd, input, output, overwrite, args, cause, error) ==
    [kind |-> "step", cmd |-> cmd, input |-> input, file |-> output,
     overwrite |-> overwrite, args |-> args, cause |-> cause, error |-> error]

check_call(cmd, input, output, overwrite, args) ==
    Step(cmd, input, output, overwrite, args,
         "CalledProcessError", "CalledProcessError")

OutputOf(src) ==
    IF src.cls \in {"OsmExpress", "OsmiumTool"} THEN "output_path" ELSE "_path"

\* os.path.isfile(self.output_path) and self.use_existing
UseExisting(src, fs) == OutputOf(src) \in fs /\ src.use_existing

OsmExpress_fetch ==
    <<Write("region.json"),
      check_call("osmx extract", "db_path", "output_path", FALSE, <<>>),
      Remove("region.json")>>

OsmExpress_path_plan(src, fs) ==
    IF UseExisting(src, fs) THEN <<>> ELSE OsmExpress_fetch

OsmiumTool_fetch ==
    <<Write("region.json"),
      check_call("osmium extract", "source_path", "output_path", TRUE, <<>>),
      Remove("region.json")>>

\* tags_filter as it would be if it always read the original source file
OsmiumTool_tags_filter_from_source(filters, planet_as_source) ==
    <<check_call("osmium tags-filter", "source_path",
                 "output_path", ~planet_as_source, filters)>>

OsmiumTool_tags_filter(filters, planet_as_source) ==
    <<check_call("osmium tags-filter",
                 IF planet_as_source THEN "source_path" ELSE "output_path",
                 "output_path", ~planet_as_source, filters)>>

OsmiumTool_path_plan(src, fs) ==
    IF UseExisting(src, fs) THEN <<>>
    ELSE LET planet_as_source == ~(src.area < AreaThreshold) IN
         (IF src.area < AreaThreshold THEN OsmiumTool_fetch ELSE <<>>)
         \o (IF src.mapping.given
             THEN CHOOSE items \in
                     {IF IsRaise(f) THEN <<RaiseItem(f.kind)>>
                      ELSE OsmiumTool_tags_filter(f.val, planet_as_source) :
                         f \in {OsmiumTool_filters(src.mapping.themes)}} : TRUE
             ELSE <<>>)

\* the sample check as it would be without the test for 'remark'
Overpass_sample_no_remark(lines) ==
    IF Len(lines) < SampleSize THEN <<RaiseItem("StopIteration")>>
    ELSE IF lines[2] = "doctype" THEN <<RaiseItem("Exception")>>
    ELSE <<>>

\* the lines of tmp.osm.xml that fetch reads: fewer than six raise
\* StopIteration out of next(f)
Overpass_sample(lines) ==
    IF Len(lines) < SampleSize THEN <<RaiseItem("StopIteration")>>
    ELSE IF lines[2] = "doctype" THEN <<RaiseItem("Exception")>>
    ELSE IF lines[SampleSize] = "remark" THEN <<RaiseItem("Exception")>>
    ELSE <<>>

\* "if self.mapping": the query is built from the filters, else it is the
\* query for every node
Overpass_query(src) ==
    IF src.mapping.given THEN Overpass_filters(src.mapping.themes)
    ELSE Tuple("all")

\* response is what the server answers, transport the exception requests
\* raises if the request does not get through
Overpass_fetch(src, response, transport) ==
    CHOOSE items \in
      {IF IsRaise(query) THEN <<RaiseItem(query.kind)>>
       ELSE (IF src.use_curl
             THEN <<Write("query.txt"),
                    Step("curl", "query.txt", "tmp.osm.xml", TRUE,
                         [query |-> query.val, response |-> response],
                         "CalledProcessError", "CalledProcessError")>>
             ELSE <<Step("requests.post", "-", "tmp.osm.xml", TRUE,
                         [query |-> query.val, response |-> response],
                         transport, transport)>>)
            \o Overpass_sample(response.lines)
            \o <<Step("osmconvert", "tmp.osm.xml", "_path", TRUE, <<>>,
                      "CalledProcessError", "ValidationErr"),
                 Remove("tmp.osm.xml")>> :
          query \in {Overpass_query(src)}} : TRUE

Overpass_path_plan(src, fs, response, transport) ==
    IF UseExisting(src, fs) THEN <<>> ELSE Overpass_fetch(src, response, transport)

Hootenanny_query(src) ==
    IF src.mapping.given THEN Hootenanny_filters(src.mapping.themes)
    ELSE Tuple("all")

\* for ext in self.extensions: for schema in self.schemas_config
Hootenanny_translations(src) ==
    LET ne == Len(src.extensions)
        ns == Len(src.schemas_config)
    IN  [i \in 1..(ne * ns) |->
            LET ext == src.extensions[((i - 1) \div ns) + 1]
                schema == src.schemas_config[((i - 1) % ns) + 1]
            IN  check_call("hoot convert", "_path/name.osm.pbf",
                           "_path/name." \o schema \o "." \o ext, FALSE,
                           [schema |-> schema, toogr |-> schema # "OSM"])]

Hootenanny_fetch(src) ==
    CHOOSE items \in
      {IF IsRaise(query) THEN <<RaiseItem(query.kind)>>
       ELSE <<check_call("hoot convert", "api/interpreter", "_path/name.osm.pbf",
                         FALSE, [query |-> query.val])>>
            \o Hootenanny_translations(src) :
          query \in {Hootenanny_query(src)}} : TRUE

Hootenanny_path_plan(src, fs) ==
    IF UseExisting(src, fs) THEN <<>> ELSE Hootenanny_fetch(src)

(***************************************************************************)
(* Running a plan.  Backend step number failAt fails (0: none does); a     *)
(* failing step may or may not leave its output file behind (partial).     *)
(* The run ends at the first failing step or raise.  A request answered    *)
(* with an HTTP error status is not a failing step to the code: no source  *)
(* with a path() looks at the status.                                      *)
(***************************************************************************)
StepNo(plan, i) == Cardinality({j \in 1..i : plan[j].kind = "step"})

Ends(plan, failAt, i) ==
    \/ plan[i].kind = "raise"
    \/ plan[i].kind = "step" /\ failAt > 0 /\ StepNo(plan, i) = failAt

Min(S) == CHOOSE x \in S : \A y \in S : x <= y
Max(S) == CHOOSE x \in S : \A y \in S : y <= x

Stop(plan, failAt) ==
    LET stops == {i \in 1..Len(plan) : Ends(plan, failAt, i)}
    IN  IF stops = {} THEN 0 ELSE Min(stops)

Last(plan, failAt) ==
    IF Stop(plan, failAt) = 0 THEN Len(plan) ELSE Stop(plan, failAt)

\* the files there are after the run
FilesAfter(plan, failAt, partial, fs) ==
    LET stop == Stop(plan, failAt)
        Touches(i, f) ==
            /\ plan[i].kind # "raise" /\ plan[i].file = f
            /\ i = stop => partial
        Touched == {plan[i].file :
                       i \in {j \in 1..Last(plan, failAt) : plan[j].kind # "raise"}}
        Present(f) ==
            LET ops == {i \in 1..Last(plan, failAt) : Touches(i, f)}
            IN  IF ops = {} THEN f \in fs ELSE plan[Max(ops)].kind # "remove"
    IN  {f \in fs \cup Touched : Present(f)}

HttpStatusError(item) ==
    /\ item.cmd \in {"curl", "requests.post"}
    /\ item.args.response.status # 200

\* the backend steps invoked, in order, each with how it ended
StepsRun(plan, failAt) ==
    LET stop == Stop(plan, failAt)
        idx == {i \in 1..Last(plan, failAt) : plan[i].kind = "step"}
        Nth(n) == CHOOSE i \in idx : StepNo(plan, i) = n
    IN  [n \in 1..Cardinality(idx) |->
            LET item == plan[Nth(n)] IN
            [cmd |-> item.cmd, input |-> item.input, output |-> item.file,
             overwrite |-> item.overwrite, args |-> item.args,
             cause |-> IF HttpStatusError(item) /\ Nth(n) # stop
                       THEN "HTTPError" ELSE item.cause,
             result |-> IF Nth(n) = stop THEN "failed"
                        ELSE IF HttpStatusError(item) THEN "status"
                        ELSE "ok"]]

Run(src, plan, failAt, partial, fs) ==
    LET stop == Stop(plan, failAt) IN
    [files |-> FilesAfter(plan, failAt, partial, fs),
     call |-> [cls |-> src.cls,
               out |-> IF stop = 0 THEN [kind |-> "str", val |-> OutputOf(src)]
                       ELSE Raise(plan[stop].error),
               steps |-> StepsRun(plan, failAt),
               existed |-> OutputOf(src) \in fs]]

NumSteps(plan) == StepNo(plan, Len(plan))

(***************************************************************************)
(* SpecSource: a source is constructed, then path() is called on it up to  *)
(* MaxCalls times; the files on disk stay from one call to the next.       *)
(***************************************************************************)
Rule(name) == CHOOSE r \in ThemeRules : r.name = name

NoMapping == [given |-> FALSE, themes |-> <<>>]

SourceMappings ==
    {NoMapping}
    \cup {[given |-> TRUE, themes |-> t] :
            t \in {<<Theme(Rule("schools"), TRUE, FALSE, FALSE)>>,
                   <<Theme(Rule("roads"), FALSE, TRUE, FALSE),
                     Theme(Rule("schools"), FALSE, FALSE, TRUE)>>,
                   <<Theme(Rule("amenities"), TRUE, FALSE, FALSE)>>,
                   <<Theme(Rule("malformed"), TRUE, FALSE, FALSE)>>}}

Source(cls, use_existing, area, m, use_curl, extensions, schemas_config) ==
    [cls |-> cls, use_existing |-> use_existing, area |-> area, mapping |-> m,
     use_curl |-> use_curl, extensions |-> extensions,
     schemas_config |-> schemas_config]

Sources ==
    {Source("OsmExpress", u, 0, NoMapping, FALSE, <<>>, <<>>) : u \in BOOLEAN}
    \cup {Source("OsmiumTool", u, a, m, FALSE, <<>>, <<>>) :
            u \in BOOLEAN, a \in {AreaThreshold - 1, AreaThreshold},
            m \in SourceMappings}
    \cup {Source("Overpass", u, 0, m, c, <<>>, <<>>) :
            u \in BOOLEAN, m \in SourceMappings, c \in BOOLEAN}
    \cup {Source("Hootenanny", u, 0, m, FALSE, e, sc) :
            u \in BOOLEAN, m \in SourceMappings,
            e \in {<<"shp">>, <<"shp", "gpkg">>},
            sc \in {<<>>, <<"OSM">>, <<"HDM">>}}

\* What the Overpass server may answer: a status and the lines of the body,
\* each an ordinary line, one with 'DOCTYPE html' or one with 'remark'.  A
\* marker is on a line that fetch looks at for it, or on another one.
Bodies ==
    {[i \in 1..n |-> "xml"] : n \in {2, SampleSize}}
    \cup {[i \in 1..n |-> IF i = 2 THEN "doctype" ELSE "xml"] : n \in {2, SampleSize}}
    \cup {[i \in 1..SampleSize |-> IF i = at THEN "doctype" ELSE "xml"] : at \in {1}}
    \cup {[i \in 1..SampleSize |-> IF i = at THEN "remark" ELSE "xml"] :
             at \in {2, SampleSize - 1, SampleSize}}

Responses == [status : {200, 500}, lines : Bodies]

NoResponse == [status |-> 0, lines |-> <<>>]

TransportErrors == {"ConnectionError", "Timeout"}

\* how a run may go: no step fails, or one of the steps from..NumSteps does
Failures(plan, from) ==
    {[failAt |-> 0, partial |-> FALSE]}
    \cup [failAt : from..NumSteps(plan), partial : BOOLEAN]

SourceIdle ==
    /\ expr = <<>> /\ partsOut = NoCall
    /\ mapping = <<>> /\ filtersOut = NoCall
    /\ fetchArgs = NoArgs /\ fetchOut = NoFetch

InitSource ==
    /\ source \in Sources
    /\ files \in {{}, {OutputOf(source)}}
    /\ calls = 0
    /\ pathOut = NoPath
    /\ SourceIdle

\* path() ends as run r says
Called(r) ==
    /\ pathOut' = r.call
    /\ files' = r.files
    /\ calls' = calls + 1
    /\ UNCHANGED <<expr, partsOut, mapping, filtersOut, fetchArgs, fetchOut, source>>

OsmExpress_path ==
    /\ source.cls = "OsmExpress" /\ calls < MaxCalls
    /\ \E plan \in {OsmExpress_path_plan(source, files)} :
       \E f \in Failures(plan, 1) :
          Called(Run(source, plan, f.failAt, f.partial, files))

OsmiumTool_path ==
    /\ source.cls = "OsmiumTool" /\ calls < MaxCalls
    /\ \E plan \in {OsmiumTool_path_plan(source, files)} :
       \E f \in Failures(plan, 1) :
          Called(Run(source, plan, f.failAt, f.partial, files))

\* either the request gets an answer, and then osmconvert may fail, or it
\* does not get through (or curl exits non-zero)
Overpass_path ==
    /\ source.cls = "Overpass" /\ calls < MaxCalls
    /\ \/ \E response \in Responses :
          \E plan \in {Overpass_path_plan(source, files, response, "-")} :
          \E f \in Failures(plan, 2) :
             Called(Run(source, plan, f.failAt, f.partial, files))
       \/ \E transport \in TransportErrors, partial \in BOOLEAN :
          \E plan \in {Overpass_path_plan(source, files, NoResponse, transport)} :
             /\ NumSteps(plan) > 0
             /\ Called(Run(source, plan, 1, partial, files))

Hootenanny_path ==
    /\ source.cls = "Hootenanny" /\ calls < MaxCalls
    /\ \E plan \in {Hootenanny_path_plan(source, files)} :
       \E f \in Failures(plan, 1) :
          Called(Run(source, plan, f.failAt, f.partial, files))

NextSource ==
    \/ OsmExpress_path
    \/ OsmiumTool_path
    \/ Overpass_path
    \/ Hootenanny_path

SpecSource == InitSource /\ [][NextSource]_vars

\* C1: for every source with a path() and every call of a sequence of
\* calls: with use_existing set and the output there already, the call
\* invokes no backend step; with use_existing not set, the call invokes at
\* least one backend step, whatever the area and the mapping.
C1_CachingContract ==
    pathOut.cls # "-" =>
        /\ (source.use_existing /\ pathOut.existed) => pathOut.steps = <<>>
        /\ ~source.use_existing => pathOut.steps # <<>>

\* C9: when a backend step of a path() fails (a process exits non-zero, a
\* request gets an error status or does not get through), the caller gets
\* that step's own error, and no further backend step is invoked.
C9_FailureSurfacedUnmodified ==
    pathOut.cls # "-" =>
        \A i \in 1..Len(pathOut.steps) :
            pathOut.steps[i].result # "ok" =>
                /\ i = Len(pathOut.steps)
                /\ pathOut.out = Raise(pathOut.steps[i].cause)

\* the themes of m without the one at position i
Without(m, i) == [j \in 1..(Len(m) - 1) |-> IF j < i THEN m[j] ELSE m[j + 1]]

Disabled(t) == ~t.points /\ ~t.lines /\ ~t.polygons

\* C11: in each compiler's filters, a theme with points, lines and polygons
\* all off is a no-op whatever its matcher: the call ends exactly as it does
\* on the mapping without that theme, and so never fails because of it.
C11_DisabledThemeNoOp ==
    filtersOut.cls \in Classes =>
        \A i \in 1..Len(mapping) :
            Disabled(mapping[i]) =>
                filtersOut.out = FiltersOf(filtersOut.cls, Without(mapping, i))

\* C12: for each of the four compilers, parts of an expression that holds a
\* node with an operator outside the variant set, at the root or nested, ends
\* in an error: it never returns a list or None.
C12_MalformedIsError ==
    (partsOut.cls \in Classes /\ HasMalformed(expr)) => IsRaise(partsOut.out)

\* the positions of the steps of the last path() call that ran cmd
StepsOf(cmd) == {i \in 1..Len(pathOut.steps) : pathOut.steps[i].cmd = cmd}

\* the last call was OsmiumTool.path and the cache check did not end it
OsmiumToolRan ==
    /\ pathOut.cls = "OsmiumTool"
    /\ ~(pathOut.existed /\ source.use_existing)

\* what C13 says of the steps apart from when tags-filter is invoked
OsmiumToolStepOrder ==
    LET ex == StepsOf("osmium extract")
        tf == StepsOf("osmium tags-filter")
    IN  /\ ex # {} <=> source.area < AreaThreshold
        /\ Cardinality(ex) <= 1 /\ Cardinality(tf) <= 1
        /\ \A i \in ex, j \in tf : i < j
        /\ \A j \in tf :
              /\ ex # {} <=> pathOut.steps[j].input = "output_path"
              /\ ex = {} <=> pathOut.steps[j].input = "source_path"
        /\ \A i \in 1..Len(pathOut.steps) : pathOut.steps[i].output # "source_path"

\* C13 as stated, for the calls in which no backend step fails: in
\* OsmiumTool.path past the cache check, extract is invoked iff the area is
\* below the threshold; tags-filter is invoked iff a mapping was supplied,
\* after extract when both run; tags-filter reads the clipped output exactly
\* when extract ran and the original source exactly when it did not; the
\* original source is never the output of a step.
C13_Original ==
    (/\ OsmiumToolRan
     /\ \A i \in 1..Len(pathOut.steps) : pathOut.steps[i].result = "ok") =>
        /\ OsmiumToolStepOrder
        /\ StepsOf("osmium tags-filter") # {} <=> source.mapping.given

\* C13, amended: the same, with tags-filter invoked iff a mapping was
\* supplied, the extract step (if it ran) did not fail and the mapping's
\* filters compiled without an error.
C13_StepOrder ==
    OsmiumToolRan =>
        /\ OsmiumToolStepOrder
        /\ StepsOf("osmium tags-filter") # {} <=>
              /\ source.mapping.given
              /\ \A i \in StepsOf("osmium extract") : pathOut.steps[i].result = "ok"
              /\ ~IsRaise(OsmiumTool_filters(source.mapping.themes))

C13_Witness ==
    /\ OsmiumToolRan
    /\ source.area < AreaThreshold /\ source.mapping.given
    /\ Len(pathOut.steps) = 2
    /\ pathOut.steps[1].cmd = "osmium extract"
    /\ pathOut.steps[2].cmd = "osmium tags-filter"
    /\ pathOut.steps[2].input = "output_path"
    /\ pathOut.out.kind = "str"

\* the last call was Overpass.path and its query got an answer
OverpassAnswered ==
    /\ pathOut.cls = "Overpass"
    /\ pathOut.steps # <<>>
    /\ pathOut.steps[1].cmd \in {"curl", "requests.post"}
    /\ pathOut.steps[1].result # "failed"

AnswerLines == pathOut.steps[1].args.response.lines

\* the answer does not pass the check: the call ends in an error after the
\* query, which is sent once; osmconvert is not invoked and nothing is
\* written to the target in this call
FetchStopped ==
    /\ IsRaise(pathOut.out)
    /\ Len(pathOut.steps) = 1
    /\ "_path" \in files => pathOut.existed

\* osmconvert is invoked only second, after the one query
ConverterAfterQuery ==
    /\ Cardinality(StepsOf("curl") \cup StepsOf("requests.post")) <= 1
    /\ StepsOf("osmconvert") \subseteq {2}
    /\ StepsOf("osmconvert") # {} => OverpassAnswered

\* C14 as stated: in Overpass.fetch, a doctype or remark marker in any of the
\* first six lines of the answer makes the fetch fail, with osmconvert not
\* invoked, the target not produced and the query not sent again; osmconvert
\* is invoked only after the answer passed the check.
C14_Original ==
    /\ pathOut.cls = "Overpass" => ConverterAfterQuery
    /\ OverpassAnswered =>
          ((\E i \in 1..SampleSize :
               i <= Len(AnswerLines) /\ AnswerLines[i] \in {"doctype", "remark"})
           => FetchStopped)

\* C14, amended: the markers that make the fetch fail so are a doctype marker
\* in the second line and a remark marker in the sixth; an answer of fewer
\* than six lines fails as well; osmconvert is invoked only after an answer
\* with none of these, and then it is invoked even with a marker elsewhere.
C14_MarkerStopsFetch ==
    /\ pathOut.cls = "Overpass" => ConverterAfterQuery
    /\ OverpassAnswered =>
          LET detected == \/ Len(AnswerLines) < SampleSize
                          \/ AnswerLines[2] = "doctype"
                          \/ AnswerLines[SampleSize] = "remark"
          IN  /\ detected => FetchStopped
              /\ ~detected => StepsOf("osmconvert") = {2}

C14_Witness ==
    /\ OverpassAnswered
    /\ Len(AnswerLines) = SampleSize
    /\ AnswerLines[SampleSize] = "remark"
    /\ pathOut.out.kind = "Exception"
    /\ Len(pathOut.steps) = 1

\* C15: whenever path() of a source returns normally, the file at the
\* returned path exists: it was there before the call and use_existing is
\* set, or a backend step of this call that writes the returned path ended
\* well.
C15_ReturnedPathExists ==
    (pathOut.cls # "-" /\ pathOut.out.kind = "str") =>
        /\ pathOut.out.val \in files
        /\ \/ pathOut.existed /\ source.use_existing
           \/ \E i \in 1..Len(pathOut.steps) :
                 /\ pathOut.steps[i].output = pathOut.out.val
                 /\ pathOut.steps[i].result = "ok"

====
